---- MODULE Spec2Model ----
(***************************************************************************)
(* A model of src/dynamicscoping/dynamicscoping.py: DynamicVar, a variable *)
(* whose value is rebound inside a `with var.binding(v):` block.           *)
(*                                                                         *)
(* One DynamicVar has a thread-local slot per thread (self._local._value), *)
(* one slot shared by all threads (self._root_value) and the thread that   *)
(* created it (self._root_thread).  Threads call binding(), leave the      *)
(* block normally or with an exception, read .value and call is_bound().   *)
(***************************************************************************)
EXTENDS Integers, Sequences, FiniteSets, TLC

\* ------------------------------------------------------------- bounds
MaxOpen == 2           \* `with` blocks open at one time, over all threads
MaxAppend == 1         \* appends made to one list

\* ---------------------------------------------------------- the universe
Vars == {"A"}          \* the DynamicVar objects the program creates
MainThread == 0        \* the thread that creates them

\* The threads: the main thread and the two of threaded_map's pool
\* (max_workers=2).  Every property below relates one thread to the root
\* thread or to one other thread, so these three show every pairing.
Threads == {MainThread, 1, 2}
Workers == Threads \ {MainThread}

\* The objects the callers pass to binding().  The code never looks into a
\* value, it only compares it with the sentinel, so two distinct objects
\* stand for all of them.
Objects == {1, 2}

\* The callers' objects that are lists (test_binding_without_copy binds
\* one); the others are immutable.
Lists == {1}

\* class UninitializedBinding: the sentinel a variable holds when unbound.
\* It is no caller-supplied object.
UninitializedBinding == 0
Values == Objects \cup {UninitializedBinding}

VARIABLES
    root_thread,   \* root_thread[x]: self._root_thread, for each variable
                   \* x that has been created
    root_value,    \* root_value[x]: self._root_value
    local,         \* local[x]: function from the threads that have the
                   \* attribute self._local._value to its value
    stack,         \* stack[t]: the open `with x.binding(v)` blocks of t,
                   \* outermost first; each holds the generator's old_value
    pc,            \* pc[t]: "ready", or inside _set between its two writes
    heap           \* [Lists -> 0..MaxAppend]: how many items each list holds

vars == <<root_thread, root_value, local, stack, pc, heap>>

\* ----------------------------------------------------------- helpers
Put(f, k, v) == [j \in (DOMAIN f) \cup {k} |-> IF j = k THEN v ELSE f[j]]

Empty == [j \in {} |-> j]

Ready == [at |-> "ready"]

Top(t) == stack[t][Len(stack[t])]

Pop(t) == [stack EXCEPT ![t] = SubSeq(@, 1, Len(@) - 1)]

\* How many `with` blocks are open, over all threads.
Open == Cardinality(UNION {{<<t, i>> : i \in 1..Len(stack[t])} : t \in Threads})

hasattr(x, t) == t \in DOMAIN local[x]

\* The variables that exist.
Created == DOMAIN root_thread

\* ------------------------------------------------- DynamicVar._value
\* A faulty variant of _value, which the snapshot-once property must
\* reject: a thread other than the root always follows self._root_value,
\* as a live subscription would.
_value_live(x, t) ==
    IF hasattr(x, t) /\ t = root_thread[x] THEN local[x][t] ELSE root_value[x]

\* The value the property returns to thread t: its own slot, or, when it
\* has none, self._root_value.
_value(x, t) == IF hasattr(x, t) THEN local[x][t] ELSE root_value[x]

\* A faulty variant of _value_local, which the slot-ownership property
\* must reject: the inheritance fills the slot of every thread that has
\* none, not only the caller's.
_value_local_all(x, t) ==
    IF hasattr(x, t) THEN local
    ELSE [local EXCEPT ![x] =
            [j \in Threads |-> IF j \in DOMAIN @ THEN @[j] ELSE root_value[x]]]

\* A faulty variant of _value_local, which the inheritance-origin
\* property must reject: a thread with no slot takes the value of the
\* highest-numbered thread that has one, not self._root_value.
_value_local_peer(x, t) ==
    IF hasattr(x, t) THEN local
    ELSE [local EXCEPT ![x] =
            Put(@, t, @[CHOOSE j \in DOMAIN @ : \A k \in DOMAIN @ : j >= k])]

\* The thread-local slots after the property has run: the slot is created
\* from self._root_value when the thread had none.
_value_local(x, t) ==
    IF hasattr(x, t) THEN local
    ELSE [local EXCEPT ![x] = Put(@, t, root_value[x])]

\* ------------------------------------------------ DynamicVar.is_bound
\* A faulty variant of is_bound, which the is_bound property must reject:
\* it tests self._root_value, not the calling thread's own value.
is_bound_root(x, t) == root_value[x] # UninitializedBinding

is_bound(x, t) == _value(x, t) # UninitializedBinding

\* --------------------------------------------------- DynamicVar.value
\* What x.value gives thread t: self._value when is_bound(), and otherwise
\* the error UninitializedBinding is raised.
value_of(x, t) ==
    IF is_bound(x, t)
    THEN [raised |-> FALSE, ret |-> _value(x, t)]
    ELSE [raised |-> TRUE]

\* x.value returns v to thread t.
Returns(x, t, v) == value_of(x, t) = [raised |-> FALSE, ret |-> v]

\* ---------------------------------------------------- DynamicVar._set
\* A faulty variant of _set_local, which the reference property must
\* reject: a copy of the value is stored, a new object that is none of the
\* callers'.
_set_local_copy(loc, x, t, value) ==
    [loc EXCEPT ![x] = Put(@, t, IF value \in Objects THEN - value ELSE value)]

\* A faulty variant of _set_local, which the isolation property must
\* reject: the value is kept in a plain attribute that all threads share,
\* not in threading.local().
_set_local_shared(loc, x, t, value) ==
    [loc EXCEPT ![x] = [j \in (DOMAIN @) \cup {t} |-> value]]

\* A faulty variant of _set_local, which the independence property must
\* reject: the slot is a process-wide global, one per thread for all the
\* variables, not instance state.
_set_local_global(loc, x, t, value) ==
    [y \in DOMAIN loc |-> Put(loc[y], t, value)]

\* self._local._value = value, from the slots `loc`.
_set_local(loc, x, t, value) == [loc EXCEPT ![x] = Put(@, t, value)]

\* A faulty variant of _set, which the root-only-writes property must
\* reject: the test for the root thread is missing, and every thread goes
\* on to write self._root_value.
_set_any_thread(loc, x, t, value, op) ==
    /\ local' = _set_local(loc, x, t, value)
    /\ pc' = [pc EXCEPT ![t] =
                [at |-> "set_root", x |-> x, value |-> value, op |-> op]]
    /\ UNCHANGED root_value

\* _set(value) by thread t, called from the slots `loc` on entering or
\* leaving (`op`) a block.  The root thread goes on to write
\* self._root_value in a second step, SetRoot.
_set(loc, x, t, value, op) ==
    /\ local' = _set_local(loc, x, t, value)
    /\ IF t = root_thread[x]
       THEN pc' = [pc EXCEPT ![t] =
                     [at |-> "set_root", x |-> x, value |-> value, op |-> op]]
       ELSE pc' = pc
    /\ UNCHANGED root_value

\* A faulty variant of SetRoot, which the mirror property must reject:
\* self._root_value is not written.
SetRoot_skipped(t) ==
    /\ pc[t].at = "set_root"
    /\ pc' = [pc EXCEPT ![t] = Ready]
    /\ UNCHANGED <<root_thread, root_value, local, stack, heap>>

\* The second write of _set: self._root_value = value.
SetRoot(t) ==
    /\ pc[t].at = "set_root"
    /\ root_value' = [root_value EXCEPT ![pc[t].x] = pc[t].value]
    /\ pc' = [pc EXCEPT ![t] = Ready]
    /\ UNCHANGED <<root_thread, local, stack, heap>>

\* ------------------------------------------------ DynamicVar.__init__
\* A faulty variant of InitVar, which the creation property must reject:
\* __init__ stores `initial` in the creating thread's slot only, and
\* self._root_value starts unbound.
InitVar_local_only(t, initial) ==
    [root_thread |-> t,
     local |-> Put(Empty, t, initial),
     root_value |-> UninitializedBinding]

\* The fields of a variable that thread t has just created with `initial`:
\* _set(initial) runs on the creating thread, which is the root thread.
InitVar(t, initial) ==
    [root_thread |-> t,
     local |-> Put(Empty, t, initial),
     root_value |-> initial]

\* No DynamicVar exists when the program starts.
Init ==
    /\ root_thread = Empty
    /\ root_value = Empty
    /\ local = Empty
    /\ stack = [t \in Threads |-> <<>>]
    /\ pc = [t \in Threads |-> Ready]
    /\ heap = [o \in Lists |-> 0]

\* dynamically_bound(initial), called by thread t, creates variable x.
dynamically_bound(t, x, initial) ==
    /\ pc[t].at = "ready"
    /\ x \notin Created
    /\ root_thread' = Put(root_thread, x, InitVar(t, initial).root_thread)
    /\ root_value' = Put(root_value, x, InitVar(t, initial).root_value)
    /\ local' = Put(local, x, InitVar(t, initial).local)
    /\ UNCHANGED <<stack, pc, heap>>

\* ------------------------------------------------- DynamicVar.binding
\* `with x.binding(v):` is entered: old_value = self._value; _set(value).
Enter(t, x, v) ==
    /\ pc[t].at = "ready"
    /\ Open < MaxOpen
    /\ stack' = [stack EXCEPT ![t] =
                   Append(@, [x |-> x, value |-> v, old |-> _value(x, t)])]
    /\ _set(_value_local(x, t), x, t, v, "enter")
    /\ UNCHANGED <<root_thread, heap>>

\* The block is left without an exception (it ends, or returns, breaks or
\* continues): the generator resumes after its yield and runs
\* _set(old_value).
Exit(t) ==
    /\ pc[t].at = "ready"
    /\ Len(stack[t]) > 0
    /\ stack' = Pop(t)
    /\ _set(local, Top(t).x, t, Top(t).old, "exit")
    /\ UNCHANGED <<root_thread, heap>>

\* The block is left by an exception: it is thrown into the generator at
\* its yield, which no try/finally surrounds, so the generator ends there
\* and the line after the yield does not run.
ExitRaise(t) ==
    /\ pc[t].at = "ready"
    /\ Len(stack[t]) > 0
    /\ stack' = Pop(t)
    /\ UNCHANGED <<root_thread, root_value, local, pc, heap>>

\* ----------------------------------------------------- reading .value
\* x.value: is_bound() resolves self._value, which creates the slot of a
\* thread that has none; the value is returned, or the error raised.
Read(t, x) ==
    /\ pc[t].at = "ready"
    /\ local' = _value_local(x, t)
    /\ UNCHANGED <<root_thread, root_value, stack, pc, heap>>

\* A faulty variant of IsBound, which the every-resolution-inherits
\* property must reject: is_bound() looks at the value the thread would
\* resolve (getattr with self._root_value as default) and stores nothing.
IsBound_peek(t, x) ==
    /\ pc[t].at = "ready"
    /\ UNCHANGED vars

\* x.is_bound()
IsBound(t, x) ==
    /\ pc[t].at = "ready"
    /\ local' = _value_local(x, t)
    /\ UNCHANGED <<root_thread, root_value, stack, pc, heap>>

\* -------------------------------------------------- DynamicVar.__repr__
\* self._name: dynamically_bound() is called without a name here, so the
\* name is id(self), for which the variable's own identity stands.
_name(x) == x

\* What '{}'.format(...) makes of a value: its text.  The sentinel, a
\* class, has a text like any other object.
format(v) == [text_of |-> v]

\* A faulty variant of __repr__, which the display property must reject:
\* it takes the value through .value, with the bound check.
__repr___checked(x, t) ==
    IF is_bound(x, t)
    THEN [raised |-> FALSE,
          text |-> <<"DynamicVar", x, format(_value(x, t))>>]
    ELSE [raised |-> TRUE]

\* repr(x) on thread t: the class name, the name when one was given, the
\* id and the text of self._value, taken without the bound check; nothing
\* is raised.
__repr__(x, t) ==
    IF _name(x) = x
    THEN [raised |-> FALSE,
          text |-> <<"DynamicVar", x, format(_value(x, t))>>]
    ELSE [raised |-> FALSE,
          text |-> <<"DynamicVar", _name(x), x, format(_value(x, t))>>]

\* '{}'.format(x): __repr__ resolves self._value, which creates the slot
\* of a thread that has none.
Format(t, x) ==
    /\ pc[t].at = "ready"
    /\ ~ __repr__(x, t).raised
    /\ local' = _value_local(x, t)
    /\ UNCHANGED <<root_thread, root_value, stack, pc, heap>>

\* x.value.append(...): the caller adds an item to the list it read from x.
Mutate(t, x) ==
    /\ pc[t].at = "ready"
    /\ ~ value_of(x, t).raised
    /\ value_of(x, t).ret \in Lists
    /\ heap[_value(x, t)] < MaxAppend
    /\ local' = _value_local(x, t)
    /\ heap' = [heap EXCEPT ![_value(x, t)] = @ + 1]
    /\ UNCHANGED <<root_thread, root_value, stack, pc>>

\* ------------------------------------------------------ specification
\* One step of thread t.
Step(t) ==
    \/ SetRoot(t)
    \/ ExitRaise(t)
    \/ Exit(t)
    \/ \E x \in Created : Read(t, x)
    \/ \E x \in Created : IsBound(t, x)
    \/ \E x \in Created : Format(t, x)
    \/ \E x \in Created : Mutate(t, x)
    \/ \E x \in Created, v \in Objects : Enter(t, x, v)

Next ==
    \/ \E x \in Vars, initial \in Values :
        dynamically_bound(MainThread, x, initial)
    \/ \E t \in Threads : Step(t)

Spec == Init /\ [][Next]_vars

\* ------------------------------------------- two variables side by side
\* Two DynamicVar objects, each created by either of two threads (so their
\* root threads may differ), and used by both threads.
VarsAB == {"A", "B"}
ThreadsAB == {MainThread, 1}

\* The object the blocks bind in these runs; the initial values supply the
\* others, so the two variables can hold different objects.
ObjectsAB == {1}

\* One step of thread t on the variables themselves: the lists' contents
\* play no part here.
StepAB(t) ==
    \/ SetRoot(t)
    \/ ExitRaise(t)
    \/ Exit(t)
    \/ \E x \in Created : Read(t, x)
    \/ \E x \in Created : IsBound(t, x)
    \/ \E x \in Created, v \in ObjectsAB : Enter(t, x, v)

NextAB ==
    \/ \E t \in ThreadsAB, x \in VarsAB, initial \in Values :
        dynamically_bound(t, x, initial)
    \/ \E t \in ThreadsAB : StepAB(t)

SpecAB == Init /\ [][NextAB]_vars

\* ============================================================ properties
\* The open blocks of variable x on thread t, outermost first.
FramesOf(t, x) == SelectSeq(stack[t], LAMBDA f : f.x = x)

\* Thread t is inside a block of x.
InScope(t, x) == Len(FramesOf(t, x)) > 0

\* The innermost open block of x on thread t.
Innermost(t, x) == FramesOf(t, x)[Len(FramesOf(t, x))]

\* ------------------------------------------------------------------ C1
\* C1: a block restores the prior value on every exit path: whether the
\* block is left normally or by an exception, the thread's effective value
\* is afterwards the old value captured on entry, and so is root_value
\* once the root thread's exit has completed.
C1_RestoredOnEveryExit ==
    [][\A t \in Threads :
        /\ (Exit(t) \/ ExitRaise(t)) =>
              \A f \in {Top(t)} :
                  /\ _value(f.x, t)' = f.old
                  /\ (t = root_thread[f.x] /\ pc'[t].at = "ready") =>
                        root_value'[f.x] = f.old
        /\ (SetRoot(t) /\ pc[t].op = "exit") =>
              \A x \in {pc[t].x} : root_value'[x] = _value(x, t)'
      ]_vars

\* ------------------------------------------------------------------ C2
\* C2: bind/restore law on one thread: at any nesting depth, inside
\* binding(v) a read returns v; inside a nested binding(w) it returns w
\* until that block is left, and v again afterwards.  That is: whenever a
\* thread is inside blocks of x, a read returns the value bound by the
\* innermost one still open.
C2_ReadReturnsInnermostBinding ==
    \A t \in Threads : \A x \in Created :
        (InScope(t, x) /\ pc[t].at = "ready") =>
            Returns(x, t, Innermost(t, x).value)

\* ------------------------------------------------------------------ C3
\* C3: thread isolation: a thread that opens its own block reads back the
\* value it bound, and while it is inside the block no step of any other
\* thread changes what it reads, whatever the interleaving.
C3_ThreadIsolation ==
    [][\A t \in Threads : \A x \in Created :
        /\ \A v \in Objects : Enter(t, x, v) => Returns(x, t, v)'
        /\ \A u \in Threads \ {t} :
              (InScope(t, x) /\ Step(u)) => value_of(x, t)' = value_of(x, t)
      ]_vars

\* Two workers are inside blocks of the same variable with different
\* values, and each reads its own.
C3_Witness ==
    \E x \in Created : \E t, u \in Workers :
        /\ t # u
        /\ InScope(t, x) /\ InScope(u, x)
        /\ Innermost(t, x).value # Innermost(u, x).value
        /\ Returns(x, t, Innermost(t, x).value)
        /\ Returns(x, u, Innermost(u, x).value)

\* ------------------------------------------------------------------ C4
\* C4: root inheritance: the first read of a thread that has never touched
\* the variable returns the root thread's current value at that moment,
\* which is the value of the root thread's innermost open block: the
\* nested value while a nested block is open, the outer value again once
\* the nested block has been left.
C4_FirstReadIsRootsInnermostBinding ==
    \A x \in Created : \A t \in Threads :
        \A r \in {root_thread[x]} :
            (~ hasattr(x, t) /\ pc[r].at = "ready") =>
                /\ value_of(x, t) = value_of(x, r)
                /\ InScope(r, x) => Returns(x, t, Innermost(r, x).value)

\* ------------------------------------------------------------------ C5
\* C5: snapshot-once inheritance: a thread other than the root keeps the
\* slot it has, and once it has one its effective value changes only in a
\* step in which the thread itself enters or leaves a block: no bind or
\* exit of the root thread (or of any other thread) changes it.
C5_SnapshotOnce ==
    [][\A x \in Created : \A t \in Threads \ {root_thread[x]} :
        hasattr(x, t) =>
            /\ hasattr(x, t)'
            /\ (_value(x, t)' # _value(x, t)) =>
                  (Exit(t) \/ \E v \in Objects : Enter(t, x, v))
      ]_vars

\* A worker with no block open still holds the unbound snapshot it took,
\* although the root thread has since bound a value.
C5_Witness ==
    \E x \in Created : \E t \in Workers :
        /\ stack[t] = <<>>
        /\ hasattr(x, t)
        /\ _value(x, t) = UninitializedBinding
        /\ InScope(root_thread[x], x)
        /\ root_value[x] # UninitializedBinding

\* ------------------------------------------------------------------ C6
\* C6: unwinding restores the pre-bind state: when a thread leaves the
\* last of its open blocks of x, its effective value is again the one it
\* had before the first of them was entered, bound or unbound; if that was
\* unbound, is_bound() is false again and a read raises again.
C6_UnwindRestoresPreBindState ==
    [][\A t \in Threads : \A x \in Created :
        (InScope(t, x) /\ ~ InScope(t, x)') =>
            \A before \in {FramesOf(t, x)[1].old} :
                /\ _value(x, t)' = before
                /\ is_bound(x, t)' = (before # UninitializedBinding)
                /\ value_of(x, t)'.raised = (before = UninitializedBinding)
      ]_vars

\* ------------------------------------------------------------------ C7
\* C7: creation state: right after a variable is created with no initial
\* value, a read raises and is_bound() is false on every thread; right
\* after it is created with initial value v, a read returns v on every
\* thread with no block open anywhere.  Later too, a thread that first
\* touches the variable while the root is unbound finds it unbound.
C7_CreationState ==
    /\ [][\A x \in Vars : \A initial \in Values :
            dynamically_bound(MainThread, x, initial) =>
                /\ root_thread'[x] = MainThread
                /\ \A t \in Threads :
                      /\ is_bound(x, t)' = (initial # UninitializedBinding)
                      /\ IF initial = UninitializedBinding
                         THEN value_of(x, t)'.raised
                         ELSE Returns(x, t, initial)'
       ]_vars
    /\ [](\A x \in Created : \A t \in Threads :
            (~ hasattr(x, t) /\ root_value[x] = UninitializedBinding) =>
                (~ is_bound(x, t) /\ value_of(x, t).raised))

\* No block has been opened since the variable was created unbound, and a
\* worker that touched it holds the unbound sentinel.
C7_Witness ==
    \E x \in Created : \E t \in Workers :
        /\ Open = 0
        /\ root_value[x] = UninitializedBinding
        /\ hasattr(x, t)
        /\ value_of(x, t).raised
        /\ value_of(x, root_thread[x]).raised

\* ------------------------------------------------------------------ C8
\* C8: on every thread and in every state, is_bound() finds a value to
\* resolve (the thread's own slot, or else self._root_value, which exists)
\* and returns true iff the thread's effective value (its slot if it has
\* one, root_value if not) is not the sentinel; a read raises exactly when
\* is_bound() would return false, and otherwise returns that value.
C8_IsBoundAgreesWithRead ==
    \A x \in Created : \A t \in Threads :
        /\ hasattr(x, t) \/ x \in DOMAIN root_value
        /\ \A effective \in {IF t \in DOMAIN local[x] THEN local[x][t]
                             ELSE root_value[x]} :
              /\ is_bound(x, t) = (effective # UninitializedBinding)
              /\ value_of(x, t).raised = ~ is_bound(x, t)
              /\ is_bound(x, t) => Returns(x, t, effective)

\* A worker inside its own block is bound although the root is unbound,
\* and another worker, which has a slot, is unbound.
C8_Witness ==
    \E x \in Created : \E t, u \in Workers :
        /\ InScope(t, x) /\ is_bound(x, t) /\ ~ value_of(x, t).raised
        /\ ~ is_bound(x, root_thread[x])
        /\ hasattr(x, u) /\ ~ is_bound(x, u) /\ value_of(x, u).raised

\* ------------------------------------------------------------------ C9
\* C9: root-only writes to the shared slot: a _set made by a thread other
\* than the root (entering or leaving a block) leaves root_value unchanged
\* and is complete in that step; a _set made by the root thread goes on to
\* store the written value in root_value, which is then what the threads
\* that have not inherited yet resolve; and root_value changes in no
\* other way.
C9_RootOnlyWrites ==
    [][\A x \in Created : \A t \in Threads :
        /\ t # root_thread[x] =>
              /\ \A v \in Objects :
                    Enter(t, x, v) =>
                        (root_value' = root_value /\ pc'[t].at = "ready")
              /\ (Exit(t) /\ Top(t).x = x) =>
                    (root_value' = root_value /\ pc'[t].at = "ready")
        /\ t = root_thread[x] =>
              /\ \A v \in Objects :
                    Enter(t, x, v) =>
                        pc'[t] = [at |-> "set_root", x |-> x, value |-> v,
                                  op |-> "enter"]
              /\ (Exit(t) /\ Top(t).x = x) =>
                    pc'[t] = [at |-> "set_root", x |-> x,
                              value |-> Top(t).old, op |-> "exit"]
              /\ (SetRoot(t) /\ pc[t].x = x) =>
                    /\ root_value'[x] = pc[t].value
                    /\ root_value'[x] = local[x][t]
                    /\ \A u \in Threads :
                          ~ hasattr(x, u) => _value(x, u)' = pc[t].value
        /\ root_value'[x] # root_value[x] =>
              (SetRoot(root_thread[x]) /\ pc[root_thread[x]].x = x)
      ]_vars

\* The root thread and a worker are both inside blocks, with different
\* values; root_value is the root's.
C9_Witness ==
    \E x \in Created : \E t \in Workers :
        /\ InScope(t, x) /\ InScope(root_thread[x], x)
        /\ pc[root_thread[x]].at = "ready"
        /\ root_value[x] = Innermost(root_thread[x], x).value
        /\ root_value[x] # Innermost(t, x).value
        /\ _value(x, t) = Innermost(t, x).value

\* ----------------------------------------------------------------- C10
\* C10: reference, not copy: binding(obj) stores the caller's object
\* itself, so a read inside the block returns the identical object;
\* entering a block changes no object; an append made through the value
\* read inside the block lands in the object the caller passed; and
\* leaving the block undoes nothing of it.
C10_ReferenceNotCopy ==
    [][\A t \in Threads : \A x \in Created :
        /\ \A obj \in Objects :
              Enter(t, x, obj) =>
                  /\ local'[x][t] = obj
                  /\ Returns(x, t, obj)'
                  /\ heap' = heap
        /\ (Mutate(t, x) /\ InScope(t, x)) =>
              \A obj \in {Innermost(t, x).value} :
                  Returns(x, t, obj) => heap'[obj] = heap[obj] + 1
        /\ (Exit(t) \/ ExitRaise(t)) => heap' = heap
      ]_vars

\* The list has been bound, appended to through the variable, and every
\* block has been left: the caller's list holds the appended item.
C10_Witness ==
    \E x \in Created :
        /\ \A o \in Lists : heap[o] = 1
        /\ Open = 0
        /\ \A t \in Threads : pc[t].at = "ready"
        /\ root_value[x] = UninitializedBinding

\* ----------------------------------------------------------------- C11
\* C11: per-thread state machine: a thread that is unbound before it opens
\* its first block of x is unbound again after it has left all of its
\* blocks of x, and in between its effective value changes only in a step
\* in which the thread itself enters or leaves a block.
C11_UnboundAtBothEnds ==
    [][\A t \in Threads : \A x \in Created :
        /\ (InScope(t, x) /\ ~ InScope(t, x)') =>
              (FramesOf(t, x)[1].old = UninitializedBinding =>
                  /\ _value(x, t)' = UninitializedBinding
                  /\ ~ is_bound(x, t)')
        /\ (hasattr(x, t) /\ _value(x, t)' # _value(x, t)) =>
              (Exit(t) \/ \E v \in Objects : Enter(t, x, v))
      ]_vars

\* ----------------------------------------------------------------- C12
\* C12: root_value mirrors the root thread: whenever the root thread is
\* not between the two writes of _set, it has a slot and root_value equals
\* that slot; root_value changes only in a step of the root thread, to the
\* value the root thread has just written to its slot; and no step of
\* another thread changes the root thread's slot or root_value.
C12_RootValueMirrorsRoot ==
    /\ [](\A x \in Created : \A r \in {root_thread[x]} :
            pc[r].at = "ready" =>
                (hasattr(x, r) /\ root_value[x] = local[x][r]))
    /\ [][\A x \in Created : \A r \in {root_thread[x]} :
            /\ root_value'[x] # root_value[x] =>
                  /\ SetRoot(r) /\ pc[r].x = x
                  /\ root_value'[x] = local[x][r]
            /\ \A t \in Threads \ {r} :
                  Step(t) =>
                      /\ root_value'[x] = root_value[x]
                      /\ local'[x][r] = local[x][r]
       ]_vars

\* The root thread has left its blocks and is unbound again, and so is
\* root_value, while a worker is inside a block of its own with a value.
C12_Witness ==
    \E x \in Created : \E t \in Workers : \A r \in {root_thread[x]} :
        /\ stack[r] = <<>> /\ pc[r].at = "ready"
        /\ root_value[x] = UninitializedBinding
        /\ local[x][r] = UninitializedBinding
        /\ InScope(t, x) /\ is_bound(x, t)
        /\ \A o \in Lists : heap[o] = 1

\* ----------------------------------------------------------------- C13
\* C13: local slots are exclusively owned: a step of thread t (read,
\* is_bound, entering or leaving a block, the second write of _set)
\* neither creates nor changes the slot of any other thread, and changes
\* root_value only when t is the root thread; what the step leaves in t's
\* own slot is made of t's own slot, root_value and the step's argument
\* only, never of another thread's slot.
C13_SlotsExclusivelyOwned ==
    [][\A t \in Threads : \A x \in Created :
        /\ Step(t) =>
              /\ \A u \in Threads \ {t} :
                    /\ hasattr(x, u)' = hasattr(x, u)
                    /\ hasattr(x, u) => local'[x][u] = local[x][u]
              /\ root_value'[x] # root_value[x] => t = root_thread[x]
        /\ \A own \in {IF t \in DOMAIN local[x] THEN local[x][t]
                       ELSE root_value[x]} :
              /\ (Read(t, x) \/ IsBound(t, x)) => local'[x][t] = own
              /\ \A v \in Objects : Enter(t, x, v) => local'[x][t] = v
              /\ (ExitRaise(t) /\ Top(t).x = x) =>
                    (hasattr(x, t) /\ local'[x][t] = own)
        /\ (Exit(t) /\ Top(t).x = x) =>
              \A old \in {Top(t).old} : local'[x][t] = old
      ]_vars

\* One worker holds the unbound snapshot it took by reading, another is
\* inside a block with one value and the root thread inside a block with
\* another: three slots, each with its owner's value.
C13_Witness ==
    \E x \in Created : \E t, u \in Workers : \A r \in {root_thread[x]} :
        /\ t # u
        /\ stack[t] = <<>> /\ hasattr(x, t)
        /\ local[x][t] = UninitializedBinding
        /\ InScope(u, x) /\ local[x][u] = Innermost(u, x).value
        /\ InScope(r, x) /\ pc[r].at = "ready"
        /\ local[x][r] = Innermost(r, x).value
        /\ local[x][r] # local[x][u]

\* ----------------------------------------------------------------- C14
\* C14: entering a block on a thread with no slot first establishes the
\* slot by the one-time inheritance and captures the inherited value,
\* root_value at that moment, as `old`; no step of another thread changes
\* what was captured; and when a thread other than the root leaves the
\* block, its effective value is the captured one, whatever the root
\* thread has bound or unwound in the meantime.
C14_FirstBindingCapturesRootValue ==
    [][\A x \in Created : \A t \in Threads \ {root_thread[x]} :
        /\ \A v \in Objects :
              (Enter(t, x, v) /\ ~ hasattr(x, t)) =>
                  /\ hasattr(x, t)'
                  /\ Top(t)'.old = root_value[x]
        /\ \A u \in Threads \ {t} :
              (Step(u) /\ InScope(t, x)) => stack'[t] = stack[t]
        /\ ((Exit(t) \/ ExitRaise(t)) /\ Top(t).x = x) =>
              \A captured \in {Top(t).old} :
                  /\ local'[x][t] = captured
                  /\ value_of(x, t)' =
                        IF captured = UninitializedBinding
                        THEN [raised |-> TRUE]
                        ELSE [raised |-> FALSE, ret |-> captured]
      ]_vars

\* ----------------------------------------------------------------- C15
\* C15: every kind of resolution performs the one-time inheritance: for a
\* thread with no slot, is_bound() and a read, the read that raises
\* included, can each be made and each leaves the thread with a slot
\* holding root_value.  Hence a thread other than the root that resolved
\* while the root was unbound holds the unbound sentinel, and its reads
\* keep raising, whatever the root thread binds, until the thread itself
\* enters a block.
C15_EveryResolutionInherits ==
    /\ [](\A x \in Created : \A t \in Threads :
            (~ hasattr(x, t) /\ pc[t].at = "ready") =>
                /\ ENABLED (IsBound(t, x) /\ hasattr(x, t)'
                              /\ local'[x][t] = root_value[x])
                /\ ~ ENABLED (IsBound(t, x) /\ ~ hasattr(x, t)')
                /\ ENABLED (Read(t, x) /\ hasattr(x, t)'
                              /\ local'[x][t] = root_value[x])
                /\ ~ ENABLED (Read(t, x) /\ ~ hasattr(x, t)')
                /\ root_value[x] = UninitializedBinding =>
                      /\ value_of(x, t).raised
                      /\ ENABLED (Read(t, x) /\ value_of(x, t)'.raised
                                    /\ local'[x][t] = UninitializedBinding))
    /\ [][\A x \in Created : \A t \in Threads \ {root_thread[x]} :
            (/\ hasattr(x, t)
             /\ local[x][t] = UninitializedBinding
             /\ ~ \E v \in Objects : Enter(t, x, v)) =>
                /\ hasattr(x, t)'
                /\ local'[x][t] = UninitializedBinding
                /\ value_of(x, t)'.raised
                /\ ~ is_bound(x, t)'
       ]_vars

\* One worker resolved while the root was unbound and its read still
\* raises, although the root thread has since bound a value, which the
\* other worker, without a slot yet, would inherit.
C15_Witness ==
    \E x \in Created : \E t, u \in Workers : \A r \in {root_thread[x]} :
        /\ hasattr(x, t) /\ stack[t] = <<>>
        /\ value_of(x, t).raised
        /\ InScope(r, x) /\ pc[r].at = "ready"
        /\ root_value[x] = Innermost(r, x).value
        /\ ~ hasattr(x, u)
        /\ Returns(x, u, root_value[x])

\* ----------------------------------------------------------------- C16
\* C16: inherited values originate from the root thread: in the step in
\* which a thread other than the root gets its slot, the value it inherits
\* (the slot's value, or the `old` captured when the step enters a block)
\* is the value root_value holds during that step; and root_value is
\* written by no thread other than the root, so that value is the initial
\* one or one the root thread bound or restored, never one that only
\* another thread bound.
C16_InheritedFromRoot ==
    [][\A x \in Created : \A t \in Threads \ {root_thread[x]} :
        /\ (~ hasattr(x, t) /\ hasattr(x, t)') =>
              /\ root_value'[x] = root_value[x]
              /\ IF Len(stack'[t]) > Len(stack[t])
                 THEN stack'[t][Len(stack'[t])].old = root_value[x]
                 ELSE local'[x][t] = root_value[x]
        /\ Step(t) => root_value'[x] = root_value[x]
        /\ root_value'[x] # root_value[x] =>
              \A r \in {root_thread[x]} :
                  /\ pc[r].at = "set_root" /\ pc'[r].at = "ready"
                  /\ root_value'[x] = local[x][r]
      ]_vars

\* A worker inherited the value the root thread had bound, while the other
\* worker is inside a block of its own with a different value.
C16_Witness ==
    \E x \in Created : \E t, u \in Workers : \A r \in {root_thread[x]} :
        /\ t # u
        /\ InScope(r, x) /\ pc[r].at = "ready"
        /\ InScope(u, x) /\ local[x][u] = Innermost(u, x).value
        /\ stack[t] = <<>> /\ hasattr(x, t)
        /\ local[x][t] = Innermost(r, x).value
        /\ local[x][t] # local[x][u]

\* ----------------------------------------------------------------- C17
\* An operation on variable x: it is created, read, asked is_bound(), or a
\* block of it is entered or left (the second write of _set included).
OpOn(x) ==
    \E t \in Threads :
        \/ \E initial \in Values : dynamically_bound(t, x, initial)
        \/ x \in Created /\ Read(t, x)
        \/ x \in Created /\ IsBound(t, x)
        \/ x \in Created /\ \E v \in Objects : Enter(t, x, v)
        \/ Exit(t) /\ Top(t).x = x
        \/ ExitRaise(t) /\ Top(t).x = x
        \/ SetRoot(t) /\ pc[t].x = x

\* C17: variable instances are independent: for two distinct variables,
\* no operation on one of them, on any thread, changes the other's
\* root_value, root thread or any thread's slot of it, so it changes what
\* no thread reads from the other.
C17_InstancesIndependent ==
    [][\A x \in VarsAB : \A y \in Created \ {x} :
        OpOn(x) =>
            /\ root_value'[y] = root_value[y]
            /\ root_thread'[y] = root_thread[y]
            /\ local'[y] = local[y]
            /\ \A t \in Threads :
                  /\ value_of(y, t)' = value_of(y, t)
                  /\ is_bound(y, t)' = is_bound(y, t)
      ]_vars

\* A thread is inside a block of one variable and reads the value it
\* bound, while the other variable, which it has also read, is unbound
\* for it.
C17_Witness ==
    \E x \in Created : \E y \in Created \ {x} : \E t \in ThreadsAB :
        /\ InScope(t, x) /\ ~ InScope(t, y)
        /\ pc[t].at = "ready"
        /\ Returns(x, t, Innermost(t, x).value)
        /\ hasattr(y, t)
        /\ value_of(y, t).raised

\* ----------------------------------------------------------------- C18
\* C18: display never fails on an unbound variable: on every thread and in
\* every state, formatting a variable can be done, raises nothing and
\* shows the thread's effective value (its slot if it has one, root_value
\* if not) taken without the bound check, the sentinel included; when the
\* variable is unbound for the thread it is the read of value that raises,
\* and is_bound() only says so; and, like a read, formatting leaves a
\* thread that had no slot with a slot holding root_value.
C18_DisplayNeverFails ==
    \A x \in Created : \A t \in Threads :
        /\ ~ __repr__(x, t).raised
        /\ \A effective \in {IF t \in DOMAIN local[x] THEN local[x][t]
                             ELSE root_value[x]} :
              /\ __repr__(x, t).text[Len(__repr__(x, t).text)]
                    = format(effective)
              /\ effective = UninitializedBinding =>
                    (value_of(x, t).raised /\ ~ is_bound(x, t))
        /\ pc[t].at = "ready" =>
              /\ ENABLED Format(t, x)
              /\ ~ hasattr(x, t) =>
                    /\ ENABLED (Format(t, x) /\ hasattr(x, t)'
                                  /\ local'[x][t] = root_value[x])
                    /\ ~ ENABLED (Format(t, x) /\ ~ hasattr(x, t)')

\* The variable is unbound for a worker that has its slot: its read raises
\* and formatting shows the sentinel, while the root thread is inside a
\* block and bound.
C18_Witness ==
    \E x \in Created : \E t \in Workers : \A r \in {root_thread[x]} :
        /\ hasattr(x, t) /\ local[x][t] = UninitializedBinding
        /\ value_of(x, t).raised
        /\ __repr__(x, t) =
              [raised |-> FALSE,
               text |-> <<"DynamicVar", x, format(UninitializedBinding)>>]
        /\ InScope(r, x) /\ is_bound(x, r)

====
